---- MODULE Spec2Model ----
(***************************************************************************)
(* A model of the mooR Python worker (tools/example-python-worker):       *)
(*   - the worker session of class MoorWorker: attach, subscribe, the     *)
(*     dispatch loop run() with its handlers, shutdown  (SpecSession);    *)
(*   - the enrollment client ensure_enrolled / enroll_with_daemon with    *)
(*     the key and identity files it keeps on disk       (SpecEnroll).    *)
(* UUIDs are abstracted to small integers, FlatBuffer Vars to records.    *)
(***************************************************************************)
EXTENDS Integers, Sequences, FiniteSets, TLC

VARIABLES
    \* ---- worker session (MoorWorker) ----
    pc,            \* position of the session in main(): created, attaching, attached,
                   \* subscribed, running, ack_wait, terminated, failed, shutdown
    worker_id,     \* self.worker_id
    process_func,  \* the callback handed to run()
    req_sock,      \* self.response_socket, a zmq.REQ socket: none/ready/awaiting/closed
    sub_sock,      \* self.request_socket, a zmq.SUB socket: none/open/closed
    cur,           \* the broadcast frame received by the current loop iteration
    sentNow,       \* what the current handler sent on the response socket
    calls,         \* invocations of process_func by the current loop iteration
    fault,         \* the exception the current iteration (or attach) ended with
    attach_reply,  \* the reply attach() received
    context,       \* self.context, the zmq.Context: open/terminated
    shutdowns,     \* shutdown() calls made so far
    \* ---- enrollment client (ensure_enrolled) and its files ----
    epc,           \* position of ensure_enrolled: idle/attempting/awaiting_response/done
    service_type,  \* the service type the caller enrolls
    secretFile,    \* data_dir/{service_type}-curve.key, by service type
    publicFile,    \* data_dir/{service_type}-curve.pub, by service type
    identityFile,  \* data_dir/{service_type}-identity.json, by service type
    keygen,        \* number of key pairs zmq.curve_keypair() has produced
    token,         \* the token ensure_enrolled resolved
    attempt,       \* loop variable of the retry loop
    retry_delay_ms,\* delay of the next sleep
    sleeps,        \* the delays the current call has slept, in order
    requests,      \* EnrollmentRequests the current call has sent
    lastRequest,   \* the last EnrollmentRequest sent
    lastResponse,  \* the last EnrollmentResponse the current call received
    store0,        \* the files of the service type when the model starts
    result,        \* what the current call returned or raised
    prev,          \* what the call before it returned or raised
    ecalls,        \* ensure_enrolled calls made so far
    sources,       \* the token sources the current call was given
    \* ---- the key and identity store called directly ----
    now,           \* the clock: datetime.now(timezone.utc)
    op,            \* the store function called last, with its service type
    ret,           \* what that call returned or raised
    \* ---- main() ----
    mpc,           \* position of main(): start, enrolling, configured, session, exited
    rpc_address,   \* args.response_address, handed to setup_curve_auth
    request_address, \* args.request_address, the address of the broadcast channel
    curve_keys     \* what setup_curve_auth returned

sessionVars == <<pc, worker_id, process_func, req_sock, sub_sock, cur, sentNow, calls, fault,
                 attach_reply, context, shutdowns>>
enrollVars == <<epc, service_type, secretFile, publicFile, identityFile, keygen, token,
                attempt, retry_delay_ms, sleeps, requests, lastRequest, lastResponse, store0,
                result, prev, ecalls, sources>>
storeVars == <<now, op, ret>>
mainVars == <<mpc, rpc_address, request_address, curve_keys>>
vars == <<sessionVars, enrollVars, storeVars, mainVars>>

(***************************************************************************)
(* Bounds of the model.                                                    *)
(***************************************************************************)
NumIds == 2         \* distinct UUID values in play
MaxCalls == 2       \* ensure_enrolled calls (process starts) on one storage scope
MaxShutdowns == 2   \* shutdown() calls on one session

UuidWidth == 16     \* uuid.UUID(bytes=...) takes exactly 16 bytes
Ids == 1..NumIds

(***************************************************************************)
(* MoorVar.Var values: a variant tag and its payload.  i is the payload    *)
(* of VarInt and VarFloat, s of VarStr, e the elements of VarList.         *)
(***************************************************************************)
IntV(n) == [t |-> "VarInt", i |-> n, s |-> "", e |-> <<>>]
FloatV(n) == [t |-> "VarFloat", i |-> n, s |-> "", e |-> <<>>]
StrV(str) == [t |-> "VarStr", i |-> 0, s |-> str, e |-> <<>>]
ListV(elems) == [t |-> "VarList", i |-> 0, s |-> "", e |-> elems]
ObjV(n) == [t |-> "VarObj", i |-> n, s |-> "", e |-> <<>>]

\* The fallback of _copy_var: a VarStr naming the variant it could not copy.
Placeholder(t) == StrV("<unsupported_type_" \o t \o ">")

\* Mutant: a variant _copy_var does not know is not copied at all.
CopyVar_noFallback(var) ==
    IF var.t \in {"VarStr", "VarInt", "VarFloat", "VarList"} THEN var
    ELSE [t |-> "None", i |-> 0, s |-> "", e |-> <<>>]

RECURSIVE CopyVar(_)
CopyVar(var) ==
    CASE var.t = "VarStr" -> IF var.s # "" THEN StrV(var.s) ELSE Placeholder(var.t)
      [] var.t = "VarInt" -> IntV(var.i)
      [] var.t = "VarFloat" -> FloatV(var.i)
      [] var.t = "VarList" -> ListV([k \in 1..Len(var.e) |-> CopyVar(var.e[k])])
      [] OTHER -> Placeholder(var.t)

\* The argument lists a WorkerRequest may carry.
ArgLists ==
    { <<>>,
      <<StrV("hello")>>,
      <<StrV("")>>,
      <<IntV(0), FloatV(1)>>,
      <<StrV("a"), ListV(<<IntV(7), ListV(<<StrV("b")>>), ListV(<<>>)>>)>>,
      <<ObjV(3), StrV("z")>> }

(***************************************************************************)
(* FlatBuffer Uuid fields: absent, or a byte vector of some width.         *)
(***************************************************************************)
NoId == [present |-> FALSE, width |-> 0, val |-> 0]
GoodId(n) == [present |-> TRUE, width |-> UuidWidth, val |-> n]
ShortId == [present |-> TRUE, width |-> 4, val |-> 1]
IdFields == {NoId, ShortId} \cup {GoodId(n) : n \in Ids}
\* Mutant: any byte vector is taken for a UUID.
UuidParses_any(f) == TRUE

\* uuid.UUID(bytes=b) raises ValueError unless len(b) = 16
UuidParses(f) == f.width = UuidWidth

(***************************************************************************)
(* Frames of the broadcast channel: [topic, message].                     *)
(***************************************************************************)
Frame(n, ok, k, w, r, a) ==
    [nparts |-> n, decodable |-> ok, kind |-> k, worker_id |-> w, id |-> r, request |-> a]
NoFrame == Frame(0, FALSE, "None", NoId, NoId, <<>>)
Frames ==
    { Frame(1, FALSE, "None", NoId, NoId, <<>>),
      Frame(2, FALSE, "None", NoId, NoId, <<>>),
      Frame(2, TRUE, "PingWorkers", NoId, NoId, <<>>),
      Frame(2, TRUE, "NONE", NoId, NoId, <<>>) }
    \cup { Frame(2, TRUE, "PleaseDie", w, NoId, <<>>) : w \in IdFields }
    \cup { Frame(2, TRUE, "WorkerRequest", GoodId(w), GoodId(r), a) :
              w \in Ids, r \in Ids, a \in ArgLists }
    \cup { Frame(2, TRUE, "WorkerRequest", w, r, <<StrV("hello")>>) :
              w \in IdFields, r \in IdFields }

(***************************************************************************)
(* Messages of the response (REQ) socket: [worker id bytes, FlatBuffer].   *)
(***************************************************************************)
NoVar == [t |-> "None", i |-> 0, s |-> "", e |-> <<>>]
\* Mutant: the first part of the frame is not the worker's identifier.
Msg_noIdPart(k, w, r, v) ==
    [part1 |-> 0, kind |-> k, worker_id |-> w, worker_type |-> "echo",
     request_id |-> r, result |-> v]

Msg(k, w, r, v) ==
    [part1 |-> w, kind |-> k, worker_id |-> w, worker_type |-> "echo",
     request_id |-> r, result |-> v]
build_attach_worker_message(w) == Msg("AttachWorker", w, 0, NoVar)
build_worker_pong_message(w) == Msg("WorkerPong", w, 0, NoVar)
\* _build_request_result: ["echo_response", ...copied args]
build_request_result(w, r, args) ==
    Msg("RequestResult", w, r,
        ListV(<<StrV("echo_response")>> \o [k \in 1..Len(args) |-> CopyVar(args[k])]))

\* The callbacks a caller may hand to run(), and what each returns.
Callbacks == {"echo_process", "upper_process"}
CallbackResult(f, args) ==
    IF f = "echo_process" THEN ListV(args) ELSE ListV(<<StrV("UPPER")>>)

(***************************************************************************)
(* The worker session: MoorWorker driven by main().                        *)
(***************************************************************************)
NoReply == [received |-> FALSE, len |-> 0, parseable |-> FALSE, reply_type |-> "NONE"]

InitSession ==
    /\ pc = "created"
    /\ worker_id \in Ids
    /\ process_func = "none"
    /\ req_sock = "none"
    /\ sub_sock = "none"
    /\ cur = NoFrame
    /\ sentNow = <<>>
    /\ calls = 0
    /\ fault = "none"
    /\ attach_reply = NoReply
    /\ context = "open"
    /\ shutdowns = 0

\* The replies the daemon may give to AttachWorker; received = FALSE is the
\* RCVTIMEO of 5000 ms expiring.  A reply of no bytes cannot be parsed.
AttachReplies ==
    { NoReply,
      [received |-> TRUE, len |-> 0, parseable |-> FALSE, reply_type |-> "NONE"],
      [received |-> TRUE, len |-> 7, parseable |-> FALSE, reply_type |-> "NONE"] }
    \cup { [received |-> TRUE, len |-> 32, parseable |-> TRUE, reply_type |-> t] :
              t \in {"WorkerAttached", "WorkerRejected", "WorkerAuthFailed", "WorkerAck"} }

\* attach(), up to the blocking recv: create the REQ socket, send AttachWorker.
attach_send(sendOk) ==
    /\ pc = "created"
    /\ IF sendOk
         THEN /\ req_sock' = "awaiting"
              /\ sentNow' = <<build_attach_worker_message(worker_id)>>
              /\ pc' = "attaching"
              /\ fault' = "none"
         ELSE /\ req_sock' = "ready"
              /\ sentNow' = <<>>
              /\ pc' = "failed"
              /\ fault' = "send_timeout"
    /\ UNCHANGED <<context, shutdowns, worker_id, process_func, sub_sock, cur, calls, attach_reply>>

\* Mutant: a WorkerRejected reply is taken for a successful attach.
AttachOutcome_ignoreRejected(reply) ==
    IF reply.parseable /\ reply.reply_type = "WorkerAuthFailed" THEN "auth_failed" ELSE "ok"

\* The outcome of attach() for a reply that was received: "ok" or the WorkerError.
AttachOutcome(reply) ==
    IF ~reply.parseable THEN "ok"
    ELSE CASE reply.reply_type = "WorkerAttached" -> "ok"
           [] reply.reply_type = "WorkerRejected" -> "rejected"
           [] reply.reply_type = "WorkerAuthFailed" -> "auth_failed"
           [] OTHER -> "ok"

\* attach(), from the blocking recv on.
attach_recv(reply) ==
    /\ pc = "attaching"
    /\ IF ~reply.received
         THEN /\ pc' = "failed"
              /\ fault' = "recv_timeout"
              /\ UNCHANGED req_sock
         ELSE /\ req_sock' = "ready"
              /\ fault' = IF AttachOutcome(reply) = "ok" THEN "none" ELSE AttachOutcome(reply)
              /\ pc' = IF AttachOutcome(reply) = "ok" THEN "attached" ELSE "failed"
    /\ attach_reply' = reply
    /\ UNCHANGED <<context, shutdowns, worker_id, process_func, sub_sock, cur, sentNow, calls>>

\* Mutant: subscribe() is called without attach().
subscribe_early ==
    /\ pc \in {"created", "attached"}
    /\ sub_sock' = "open"
    /\ pc' = "subscribed"
    /\ UNCHANGED <<context, shutdowns, worker_id, process_func, req_sock, cur, sentNow, calls, fault, attach_reply>>

subscribe ==
    /\ pc = "attached"
    /\ sub_sock' = "open"
    /\ pc' = "subscribed"
    /\ UNCHANGED <<context, shutdowns, worker_id, process_func, req_sock, cur, sentNow, calls, fault, attach_reply>>

\* run(process_func) is entered.
run(f) ==
    /\ pc = "subscribed"
    /\ process_func' = f
    /\ pc' = "running"
    /\ cur' = NoFrame
    /\ sentNow' = <<>>
    /\ UNCHANGED <<context, shutdowns, worker_id, req_sock, sub_sock, calls, fault, attach_reply>>

\* Mutant: an exception of the iteration ends the loop.
Continue_raise(f) ==
    /\ pc' = IF f = "none" THEN "running" ELSE "terminated"
    /\ fault' = f
    /\ sentNow' = <<>>
    /\ UNCHANGED req_sock

\* The iteration ends without a send and the loop goes on: a return of the
\* handler, a continue, or an exception caught by "except Exception" (f).
Continue(f) ==
    /\ pc' = "running"
    /\ fault' = f
    /\ sentNow' = <<>>
    /\ UNCHANGED req_sock

\* break
Break ==
    /\ pc' = "terminated"
    /\ fault' = "none"
    /\ sentNow' = <<>>
    /\ UNCHANGED req_sock

\* Mutant: the handler does not wait for the acknowledgement of its send.
send_multipart_nowait(msg, sendOk) ==
    IF req_sock = "awaiting" THEN Continue("efsm")
    ELSE IF ~sendOk THEN Continue("send_timeout")
    ELSE /\ sentNow' = <<msg>>
         /\ req_sock' = "awaiting"
         /\ pc' = "running"
         /\ fault' = "none"

\* response_socket.send_multipart([worker_id_bytes, msg]) in a handler.  A REQ
\* socket that still waits for a reply refuses the send (EFSM); SNDTIMEO may expire.
send_multipart(msg, sendOk) ==
    IF req_sock = "awaiting" THEN Continue("efsm")
    ELSE IF ~sendOk THEN Continue("send_timeout")
    ELSE /\ sentNow' = <<msg>>
         /\ req_sock' = "awaiting"
         /\ pc' = "ack_wait"
         /\ fault' = "none"

_handle_ping(sendOk) ==
    send_multipart(build_worker_pong_message(worker_id), sendOk)

\* Mutant: no filtering by destination.
NotForUs_never(target) == FALSE

\* "if target_id != self.worker_id: return"
NotForUs(target) == target # worker_id

\* Mutant: a request with a malformed identifier ends the loop.
_handle_request_fatal(frame, sendOk) ==
    IF ~frame.worker_id.present THEN Continue("none")
    ELSE IF ~UuidParses(frame.worker_id) THEN Break
    ELSE IF NotForUs(frame.worker_id.val) THEN Continue("none")
    ELSE IF ~frame.id.present THEN Continue("none")
    ELSE IF ~UuidParses(frame.id) THEN Break
    ELSE send_multipart(build_request_result(worker_id, frame.id.val, frame.request), sendOk)

_handle_request(frame, sendOk) ==
    IF ~frame.worker_id.present THEN Continue("none")
    ELSE IF ~UuidParses(frame.worker_id) THEN Continue("ValueError")
    ELSE IF NotForUs(frame.worker_id.val) THEN Continue("none")
    ELSE IF ~frame.id.present THEN Continue("none")
    ELSE IF ~UuidParses(frame.id) THEN Continue("ValueError")
    ELSE send_multipart(build_request_result(worker_id, frame.id.val, frame.request), sendOk)

\* Mutant: PleaseDie ends the loop whoever it is addressed to.
please_die_any(frame) ==
    IF frame.worker_id.present /\ ~UuidParses(frame.worker_id)
    THEN Continue("ValueError")
    ELSE Break

\* The PleaseDie branch of run().
please_die(frame) ==
    IF frame.worker_id.present
    THEN IF ~UuidParses(frame.worker_id) THEN Continue("ValueError")
         ELSE IF frame.worker_id.val = worker_id THEN Break
         ELSE Continue("none")
    ELSE Break

\* One iteration of the loop of run(), up to the handler's blocking recv.
run_recv(frame, sendOk) ==
    /\ pc = "running"
    /\ cur' = frame
    /\ calls' = 0
    /\ IF frame.nparts < 2 THEN Continue("none")
       ELSE IF ~frame.decodable THEN Continue("decode_error")
       ELSE CASE frame.kind = "PingWorkers" -> _handle_ping(sendOk)
              [] frame.kind = "WorkerRequest" -> _handle_request(frame, sendOk)
              [] frame.kind = "PleaseDie" -> please_die(frame)
              [] OTHER -> Continue("none")
    /\ UNCHANGED <<context, shutdowns, worker_id, process_func, sub_sock, attach_reply>>

\* response_socket.recv() of _handle_ping and _handle_request: the
\* acknowledgement arrives, or RCVTIMEO expires and zmq.Again is caught by run().
ack_recv(got) ==
    /\ pc = "ack_wait"
    /\ pc' = "running"
    /\ IF got
         THEN req_sock' = "ready" /\ fault' = "none"
         ELSE fault' = "recv_timeout" /\ UNCHANGED req_sock
    /\ UNCHANGED <<context, shutdowns, worker_id, process_func, sub_sock, cur, sentNow, calls, attach_reply>>

\* "except KeyboardInterrupt: break"
keyboard_interrupt ==
    /\ pc \in {"running", "ack_wait"}
    /\ pc' = "terminated"
    /\ fault' = "KeyboardInterrupt"
    /\ UNCHANGED <<context, shutdowns, worker_id, process_func, req_sock, sub_sock, cur, sentNow, calls, attach_reply>>

\* Mutant: shutdown() leaves the response socket as it is.
shutdown_leak ==
    /\ pc \in {"created", "failed", "subscribed", "terminated", "shutdown"}
    /\ shutdowns < MaxShutdowns
    /\ shutdowns' = shutdowns + 1
    /\ pc' = "shutdown"
    /\ sub_sock' = IF sub_sock = "none" THEN "none" ELSE "closed"
    /\ context' = "terminated"
    /\ UNCHANGED <<req_sock, worker_id, process_func, cur, sentNow, calls, fault, attach_reply>>

\* shutdown(): from the finally clause of main() (after a failed attach, after
\* the loop ended, or when an exception ends attach or subscribe early), or
\* called again by the owner of the session.  Closing a closed socket and
\* terminating a terminated context do nothing.
shutdown ==
    /\ pc \in {"created", "failed", "subscribed", "terminated", "shutdown"}
    /\ shutdowns < MaxShutdowns
    /\ shutdowns' = shutdowns + 1
    /\ pc' = "shutdown"
    /\ sub_sock' = IF sub_sock = "none" THEN "none" ELSE "closed"
    /\ req_sock' = IF req_sock = "none" THEN "none" ELSE "closed"
    /\ context' = "terminated"
    /\ UNCHANGED <<worker_id, process_func, cur, sentNow, calls, fault, attach_reply>>

NextSession ==
    \/ \E ok \in BOOLEAN : attach_send(ok) /\ UNCHANGED <<enrollVars, storeVars, mainVars>>
    \/ \E r \in AttachReplies : attach_recv(r) /\ UNCHANGED <<enrollVars, storeVars, mainVars>>
    \/ subscribe /\ UNCHANGED <<enrollVars, storeVars, mainVars>>
    \/ \E f \in Callbacks : run(f) /\ UNCHANGED <<enrollVars, storeVars, mainVars>>
    \/ \E fr \in Frames, ok \in BOOLEAN : run_recv(fr, ok) /\ UNCHANGED <<enrollVars, storeVars, mainVars>>
    \/ \E got \in BOOLEAN : ack_recv(got) /\ UNCHANGED <<enrollVars, storeVars, mainVars>>
    \/ keyboard_interrupt /\ UNCHANGED <<enrollVars, storeVars, mainVars>>
    \/ shutdown /\ UNCHANGED <<enrollVars, storeVars, mainVars>>

(***************************************************************************)
(* The key and identity store.                                             *)
(***************************************************************************)
KeyLen == 40                 \* Z85-encoded CURVE keys are always 40 chars
ServiceTypes == {"python-echo-worker", "python-http-worker"}

\* Z85 strings: their length and which key they encode.
KeyStr(l, v) == [len |-> l, val |-> v]
NoKeyStr == KeyStr(0, 0)
\* Key files: a "field=value" line.
KeyFile(f, k) == [exists |-> TRUE, field |-> f, value |-> k]
NoKeyFile == [exists |-> FALSE, field |-> "", value |-> NoKeyStr]

\* UUID strings: the canonical form str(uuid) writes, another form uuid.UUID()
\* reads (upper case), a string that is no UUID ("w-1"), or no string.
UuidStr(f, v) == [form |-> f, val |-> v]
NoUuidStr == UuidStr("absent", 0)
\* uuid.UUID(s) raises ValueError on a badly formed string
UuidStrParses(u) == u.form \in {"canon", "upper"}

Identity(u, st, k, at) ==
    [exists |-> TRUE, service_uuid |-> u, service_type |-> st, hostname |-> "host",
     daemon_curve_public_key |-> k, enrolled_at |-> at]
NoIdentity ==
    [exists |-> FALSE, service_uuid |-> NoUuidStr, service_type |-> "", hostname |-> "",
     daemon_curve_public_key |-> NoKeyStr, enrolled_at |-> 0]

\* _parse_key_file: the value of the expected field, if its length is 40
ParsesKeyFile(file, expected_prefix) ==
    file.field = expected_prefix /\ file.value.len = KeyLen

\* The pair zmq.curve_keypair() produces as the n-th.
generate_curve_keypair(n) == KeyStr(KeyLen, n)

\* Mutant: a new pair is generated at every call.
load_or_generate_keypair_fresh(st) ==
    [ok |-> TRUE, generated |-> TRUE,
     secret |-> generate_curve_keypair(keygen + 1),
     public |-> generate_curve_keypair(keygen + 1)]

\* load_or_generate_keypair: "ok" with the pair, or the ValueError of _load_keypair
load_or_generate_keypair(st) ==
    IF secretFile[st].exists /\ publicFile[st].exists
    THEN IF ParsesKeyFile(secretFile[st], "secret") /\ ParsesKeyFile(publicFile[st], "public")
         THEN [ok |-> TRUE, generated |-> FALSE,
               secret |-> secretFile[st].value, public |-> publicFile[st].value]
         ELSE [ok |-> FALSE, generated |-> FALSE, secret |-> NoKeyStr, public |-> NoKeyStr]
    ELSE [ok |-> TRUE, generated |-> TRUE,
          secret |-> generate_curve_keypair(keygen + 1),
          public |-> generate_curve_keypair(keygen + 1)]

\* Mutant: the generated pair is not written.
KeyFilesAfter_unsaved(st, kp) ==
    /\ keygen' = IF kp.generated THEN keygen + 1 ELSE keygen
    /\ UNCHANGED <<secretFile, publicFile>>

\* Mutant: only the secret half of a generated pair is written.
KeyFilesAfter_secretOnly(st, kp) ==
    /\ keygen' = IF kp.generated THEN keygen + 1 ELSE keygen
    /\ secretFile' = IF kp.generated
                     THEN [secretFile EXCEPT ![st] = KeyFile("secret", kp.secret)]
                     ELSE secretFile
    /\ UNCHANGED publicFile

\* The files after load_or_generate_keypair: _save_keypair writes both.
KeyFilesAfter(st, kp) ==
    /\ keygen' = IF kp.generated THEN keygen + 1 ELSE keygen
    /\ secretFile' = IF kp.generated
                     THEN [secretFile EXCEPT ![st] = KeyFile("secret", kp.secret)]
                     ELSE secretFile
    /\ publicFile' = IF kp.generated
                     THEN [publicFile EXCEPT ![st] = KeyFile("public", kp.public)]
                     ELSE publicFile

\* Mutant: without an identity file of its own the service type takes another's.
load_identity_anyType(st) ==
    IF identityFile[st].exists THEN identityFile[st]
    ELSE identityFile[CHOOSE b \in ServiceTypes : b # st]

\* Mutant: the identity file is never found.
load_identity_none(st) == NoIdentity

\* load_identity: the record of the identity file, if the file exists
load_identity(st) == identityFile[st]

\* Mutant: save_identity writes nothing.
save_identity_lost(st, service_uuid, daemon_public_key) == identityFile

\* Mutant: save_identity keeps a record that is already there.
save_identity_once(st, service_uuid, daemon_public_key) ==
    IF identityFile[st].exists THEN identityFile
    ELSE [identityFile EXCEPT
             ![st] = Identity(UuidStr("canon", service_uuid), st, daemon_public_key, now)]

\* save_identity: the identity file of the service type is overwritten with a
\* record that carries the time of the call.
save_identity(st, service_uuid, daemon_public_key) ==
    [identityFile EXCEPT
        ![st] = Identity(UuidStr("canon", service_uuid), st, daemon_public_key, now)]

(***************************************************************************)
(* The enrollment client.                                                  *)
(***************************************************************************)
max_retries == 30
max_retry_delay_ms == 5000
first_retry_delay_ms == 100
\* Mutant: the delay is doubled without a cap.
Min_uncapped(a, b) == a

Min(a, b) == IF a < b THEN a ELSE b

\* Token sources: an optional string each (None, or a missing file: absent).
Src(p, t) == [present |-> p, text |-> t]
Absent == Src(FALSE, "")
TokenArgs == {Absent, Src(TRUE, ""), Src(TRUE, "tokA")}
TokenFiles == {Absent, Src(TRUE, " \n"), Src(TRUE, "tokB\n")}
XdgFiles == {Absent, Src(TRUE, "tokC\n")}
EnvTokens == {Absent, Src(TRUE, "tokD")}
\* Mutant: file contents are used as they are.
Strip_none(t) == t

\* str.strip()
Strip(t) ==
    CASE t = " \n" -> ""
      [] t = "tokB\n" -> "tokB"
      [] t = "tokC\n" -> "tokC"
      [] OTHER -> t
NoSources == [arg |-> Absent, file |-> Absent, xdg |-> Absent, env |-> Absent]
\* Mutant: the environment variable is consulted first.
ResolveToken_envFirst(arg, file, xdg, env) ==
    LET t1 == IF env.present THEN env.text ELSE ""
        t2 == IF t1 = "" /\ arg.present THEN arg.text ELSE t1
        t3 == IF t2 = "" /\ file.present THEN Strip(file.text) ELSE t2
        t4 == IF t3 = "" /\ xdg.present THEN Strip(xdg.text) ELSE t3
    IN  t4

\* the token resolution of ensure_enrolled; "" is "not token"
ResolveToken(arg, file, xdg, env) ==
    LET t1 == IF arg.present THEN arg.text ELSE ""
        t2 == IF t1 = "" /\ file.present THEN Strip(file.text) ELSE t1
        t3 == IF t2 = "" /\ xdg.present THEN Strip(xdg.text) ELSE t2
        t4 == IF t3 = "" /\ env.present THEN env.text ELSE t3
    IN  t4

\* What an ensure_enrolled call ends with.
NoResult == [kind |-> "none", key |-> NoKeyStr, uuid |-> 0, error |-> "", cause |-> ""]
Returned(k, u) == [kind |-> "returned", key |-> k, uuid |-> u, error |-> "", cause |-> ""]
Raised(e, c) == [kind |-> "raised", key |-> NoKeyStr, uuid |-> 0, error |-> e, cause |-> c]
\* what a later call remembers of it: the pair, if it returned one
Remembered(r) == IF r.kind = "returned" THEN r ELSE NoResult

NoRequest == [enrollment_token |-> "", curve_public_key |-> NoKeyStr, service_type |-> ""]

\* EnrollmentResponses of the daemon.
Response(d, ok, k, u) ==
    [received |-> TRUE, decodable |-> d, success |-> ok, daemon_key |-> k, service_uuid |-> u]
\* no response: send or recv raised zmq.ZMQError
NoResponse == [Response(FALSE, FALSE, NoKeyStr, NoUuidStr) EXCEPT !.received = FALSE]
DaemonKey == KeyStr(KeyLen, 77)
Responses ==
    { NoResponse,
      Response(FALSE, FALSE, NoKeyStr, NoUuidStr),
      Response(TRUE, FALSE, NoKeyStr, NoUuidStr),
      Response(TRUE, TRUE, NoKeyStr, UuidStr("canon", 1)),
      Response(TRUE, TRUE, DaemonKey, NoUuidStr),
      Response(TRUE, TRUE, DaemonKey, UuidStr("bad", 1)),
      Response(TRUE, TRUE, DaemonKey, UuidStr("upper", 1)),
      Response(TRUE, TRUE, KeyStr(3, 78), UuidStr("canon", 1)) }
    \cup { Response(TRUE, TRUE, DaemonKey, UuidStr("canon", n)) : n \in Ids }

\* The files a storage scope may hold when the worker starts.
SecretFiles0 ==
    { NoKeyFile, KeyFile("secret", KeyStr(KeyLen, 0)), KeyFile("secret", KeyStr(39, 0)),
      KeyFile("sekret", KeyStr(KeyLen, 0)) }
PublicFiles0 ==
    { NoKeyFile, KeyFile("public", KeyStr(KeyLen, 0)), KeyFile("public", KeyStr(41, 0)) }
IdentityFiles0(st) ==
    { NoIdentity, Identity(UuidStr("canon", NumIds), st, KeyStr(KeyLen, 70), 0) }
EmptyStore == [secret |-> NoKeyFile, public |-> NoKeyFile, identity |-> NoIdentity]

InitEnroll ==
    /\ epc = "idle"
    /\ service_type = "python-echo-worker"
    /\ \E sf \in SecretFiles0, pf \in PublicFiles0, idf \in IdentityFiles0(service_type) :
          /\ secretFile = [st \in ServiceTypes |->
                 IF st = service_type THEN sf ELSE KeyFile("secret", KeyStr(KeyLen, 0))]
          /\ publicFile = [st \in ServiceTypes |->
                 IF st = service_type THEN pf ELSE KeyFile("public", KeyStr(KeyLen, 0))]
          /\ identityFile = [st \in ServiceTypes |->
                 IF st = service_type THEN idf
                 ELSE Identity(UuidStr("canon", 1), st, KeyStr(KeyLen, 70), 0)]
          /\ store0 = [secret |-> sf, public |-> pf, identity |-> idf]
    /\ keygen = 0
    /\ token = ""
    /\ attempt = 0
    /\ retry_delay_ms = 0
    /\ sleeps = <<>>
    /\ requests = 0
    /\ lastRequest = NoRequest
    /\ lastResponse = NoResponse
    /\ result = NoResult
    /\ prev = NoResult
    /\ ecalls = 0
    /\ sources = NoSources

\* ensure_enrolled is called: the identity check and the token resolution.
ensure_enrolled(arg, file, xdg, env) ==
    /\ epc \in {"idle", "done"}
    /\ ecalls < MaxCalls
    /\ ecalls' = ecalls + 1
    /\ sources' = [arg |-> arg, file |-> file, xdg |-> xdg, env |-> env]
    /\ prev' = Remembered(result)
    /\ requests' = 0
    /\ sleeps' = <<>>
    /\ lastRequest' = NoRequest
    /\ lastResponse' = NoResponse
    /\ LET identity == load_identity(service_type)
           tok == ResolveToken(arg, file, xdg, env)
       IN  IF identity.exists
           THEN /\ epc' = "done"
                /\ result' = IF UuidStrParses(identity.service_uuid)
                             THEN Returned(identity.daemon_curve_public_key,
                                           identity.service_uuid.val)
                             ELSE Raised("ValueError", "")
                /\ token' = ""
                /\ attempt' = 0
                /\ retry_delay_ms' = 0
           ELSE IF tok = ""
           THEN /\ epc' = "done"
                /\ result' = Raised("no_token", "")
                /\ token' = ""
                /\ attempt' = 0
                /\ retry_delay_ms' = 0
           ELSE /\ epc' = "attempting"
                /\ result' = NoResult
                /\ token' = tok
                /\ attempt' = 1
                /\ retry_delay_ms' = first_retry_delay_ms
    /\ UNCHANGED <<service_type, secretFile, publicFile, identityFile, keygen, store0>>

\* Mutant: the loop sleeps after the last attempt too, before it raises.
AttemptFailed_sleepLast(cause) ==
    /\ sleeps' = Append(sleeps, retry_delay_ms)
    /\ retry_delay_ms' = Min(retry_delay_ms * 2, max_retry_delay_ms)
    /\ IF attempt = max_retries
       THEN /\ result' = Raised("retries_exhausted", cause)
            /\ epc' = "done"
            /\ UNCHANGED attempt
       ELSE /\ attempt' = attempt + 1
            /\ epc' = "attempting"
            /\ UNCHANGED result

\* "except Exception as e" of the retry loop: raise after the last attempt,
\* otherwise sleep, double the delay and try again.
AttemptFailed(cause) ==
    IF attempt = max_retries
    THEN /\ result' = Raised("retries_exhausted", cause)
         /\ epc' = "done"
         /\ UNCHANGED <<attempt, retry_delay_ms, sleeps>>
    ELSE /\ sleeps' = Append(sleeps, retry_delay_ms)
         /\ retry_delay_ms' = Min(retry_delay_ms * 2, max_retry_delay_ms)
         /\ attempt' = attempt + 1
         /\ epc' = "attempting"
         /\ UNCHANGED result

\* enroll_with_daemon up to its blocking recv: the key pair, connect, send.
enroll_send ==
    /\ epc = "attempting"
    /\ LET kp == load_or_generate_keypair(service_type)
       IN  /\ KeyFilesAfter(service_type, kp)
           /\ IF ~kp.ok
              THEN AttemptFailed("ValueError") /\ UNCHANGED <<requests, lastRequest>>
              ELSE /\ requests' = requests + 1
                   /\ lastRequest' = [enrollment_token |-> token,
                                      curve_public_key |-> kp.public,
                                      service_type |-> service_type]
                   /\ epc' = "awaiting_response"
                   /\ UNCHANGED <<attempt, retry_delay_ms, sleeps, result>>
    /\ UNCHANGED <<service_type, identityFile, token, lastResponse, store0, prev, ecalls,
                   sources>>

\* Mutant: a response without daemon key or identifier is taken as it is.
ResponseOutcome_unchecked(resp) ==
    IF ~resp.received THEN "ZMQError"
    ELSE IF ~resp.decodable THEN "DecodeError"
    ELSE IF ~resp.success THEN "Enrollment failed"
    ELSE "ok"

\* What enroll_with_daemon makes of a response: "ok" or the exception.
ResponseOutcome(resp) ==
    IF ~resp.received THEN "ZMQError"
    ELSE IF ~resp.decodable THEN "DecodeError"
    ELSE IF ~resp.success THEN "Enrollment failed"
    ELSE IF resp.daemon_key.len = 0 THEN "No daemon public key in response"
    ELSE IF resp.service_uuid.form = "absent" THEN "No service UUID in response"
    ELSE IF ~UuidStrParses(resp.service_uuid) THEN "ValueError"
    ELSE "ok"

\* enroll_with_daemon from its recv on: parse the response, save the identity.
enroll_recv(resp) ==
    /\ epc = "awaiting_response"
    /\ lastResponse' = resp
    /\ IF ResponseOutcome(resp) = "ok"
       THEN /\ identityFile' = save_identity(service_type, resp.service_uuid.val, resp.daemon_key)
            /\ result' = Returned(resp.daemon_key, resp.service_uuid.val)
            /\ epc' = "done"
            /\ UNCHANGED <<attempt, retry_delay_ms, sleeps>>
       ELSE /\ AttemptFailed(ResponseOutcome(resp))
            /\ UNCHANGED identityFile
    /\ UNCHANGED <<service_type, secretFile, publicFile, keygen, token, requests, lastRequest,
                   store0, prev, ecalls, sources>>

\* The enrollment client at rest, for the session's specification.
EnrollAtRest ==
    /\ epc = "idle"
    /\ service_type = "python-echo-worker"
    /\ secretFile = [st \in ServiceTypes |-> NoKeyFile]
    /\ publicFile = [st \in ServiceTypes |-> NoKeyFile]
    /\ identityFile = [st \in ServiceTypes |-> NoIdentity]
    /\ store0 = EmptyStore
    /\ keygen = 0
    /\ token = ""
    /\ attempt = 0
    /\ retry_delay_ms = 0
    /\ sleeps = <<>>
    /\ requests = 0
    /\ lastRequest = NoRequest
    /\ lastResponse = NoResponse
    /\ result = NoResult
    /\ prev = NoResult
    /\ ecalls = 0
    /\ sources = NoSources

\* The session at rest, for the enrollment client's specification.
SessionAtRest ==
    /\ pc = "created"
    /\ worker_id = 1
    /\ process_func = "none"
    /\ req_sock = "none"
    /\ sub_sock = "none"
    /\ cur = NoFrame
    /\ sentNow = <<>>
    /\ calls = 0
    /\ fault = "none"
    /\ attach_reply = NoReply
    /\ context = "open"
    /\ shutdowns = 0

NextEnroll ==
    \/ \E arg \in TokenArgs, file \in TokenFiles, xdg \in XdgFiles, env \in EnvTokens :
          ensure_enrolled(arg, file, xdg, env) /\ UNCHANGED <<sessionVars, storeVars, mainVars>>
    \/ enroll_send /\ UNCHANGED <<sessionVars, storeVars, mainVars>>
    \/ \E resp \in Responses : enroll_recv(resp) /\ UNCHANGED <<sessionVars, storeVars, mainVars>>

\* The steps ensure_enrolled takes by itself: after the sleep of a failed
\* attempt it tries again.  The step after the blocking recv is not among
\* them: the socket of enroll_with_daemon has no RCVTIMEO, so recv returns only
\* when the daemon replies or the transport fails.
EnrollProgram == enroll_send /\ UNCHANGED <<sessionVars, storeVars, mainVars>>

(***************************************************************************)
(* The key and identity store called directly, as a caller or a test may.  *)
(***************************************************************************)
MaxKeys == 2        \* key pairs zmq.curve_keypair() may produce
MaxClock == 1       \* ticks of the clock

\* A call: the function, its service type and (save_identity) its arguments;
\* seq alternates from one call to the next, again tells that the call before
\* it was the same call with the same arguments.
Op(f, st, u, k) ==
    [name |-> f, st |-> st, uuid |-> u, key |-> k, seq |-> 0, again |-> FALSE]
NoOp == Op("none", "", 0, NoKeyStr)
SameCall(a, b) ==
    [a EXCEPT !.seq = 0, !.again = FALSE] = [b EXCEPT !.seq = 0, !.again = FALSE]
\* the call c made after the call op
Called(c) == [c EXCEPT !.seq = 1 - op.seq, !.again = SameCall(c, op)]

\* What a store function returns or raises.
Ret(kind, sk, pk, id) == [kind |-> kind, secret |-> sk, public |-> pk, identity |-> id]
NoRet == Ret("none", NoKeyStr, NoKeyStr, NoIdentity)

StoreAtRest ==
    /\ now = 0
    /\ op = NoOp
    /\ ret = NoRet

\* load_or_generate_keypair(data_dir, st) is called.
call_load_or_generate_keypair(st) ==
    LET c == Op("load_or_generate_keypair", st, 0, NoKeyStr)
        kp == load_or_generate_keypair(st)
    IN  /\ kp.generated => keygen < MaxKeys
        /\ KeyFilesAfter(st, kp)
        /\ op' = Called(c)
        /\ ret' = IF kp.ok THEN Ret("keypair", kp.secret, kp.public, NoIdentity)
                   ELSE Ret("ValueError", NoKeyStr, NoKeyStr, NoIdentity)
        /\ UNCHANGED <<identityFile, now>>

\* save_identity(data_dir, st, u, hostname, k) is called.
call_save_identity(st, u, k) ==
    LET c == Op("save_identity", st, u, k)
    IN  /\ identityFile' = save_identity(st, u, k)
        /\ op' = Called(c)
        /\ ret' = Ret("None", NoKeyStr, NoKeyStr, NoIdentity)
        /\ UNCHANGED <<secretFile, publicFile, keygen, now>>

\* load_identity(data_dir, st) is called.
call_load_identity(st) ==
    LET c == Op("load_identity", st, 0, NoKeyStr)
    IN  /\ op' = Called(c)
        /\ ret' = Ret("identity", NoKeyStr, NoKeyStr, load_identity(st))
        /\ UNCHANGED <<secretFile, publicFile, identityFile, keygen, now>>

\* The operator removes a key file of the service type.
unlink(st, which) ==
    LET c == Op("unlink", st, 0, NoKeyStr)
    IN  /\ IF which = "secret" THEN secretFile[st].exists ELSE publicFile[st].exists
        /\ secretFile' = IF which = "secret" THEN [secretFile EXCEPT ![st] = NoKeyFile]
                          ELSE secretFile
        /\ publicFile' = IF which = "public" THEN [publicFile EXCEPT ![st] = NoKeyFile]
                          ELSE publicFile
        /\ op' = Called(c)
        /\ ret' = NoRet
        /\ UNCHANGED <<identityFile, keygen, now>>

\* Time passes.
tick ==
    /\ now < MaxClock
    /\ now' = now + 1
    /\ UNCHANGED <<secretFile, publicFile, identityFile, keygen, op, ret>>

\* what the store functions leave alone
StoreFrame ==
    UNCHANGED <<sessionVars, mainVars, epc, service_type, token, attempt, retry_delay_ms,
                sleeps, requests, lastRequest, lastResponse, store0, result, prev, ecalls,
                sources>>

NextStore ==
    \/ \E st \in ServiceTypes : call_load_or_generate_keypair(st) /\ StoreFrame
    \/ \E u \in Ids : call_save_identity(service_type, u, DaemonKey) /\ StoreFrame
    \/ call_load_identity(service_type) /\ StoreFrame
    \/ \E which \in {"secret", "public"} : unlink(service_type, which) /\ StoreFrame
    \/ tick /\ StoreFrame

\* Transport addresses: the scheme and the rest.
Address(scheme, rest) == [scheme |-> scheme, rest |-> rest]
\* What setup_curve_auth returns: None, or (client_secret, client_public, server_public).
CurveKeys(sk, pk, dk) == [present |-> TRUE, secret |-> sk, public |-> pk, server |-> dk]
NoKeys == [present |-> FALSE, secret |-> NoKeyStr, public |-> NoKeyStr, server |-> NoKeyStr]

\* main() not in play, for the specifications of the parts.
MainAtRest ==
    /\ mpc = "none"
    /\ rpc_address = Address("ipc", "/tmp/moor_workers_response.sock")
    /\ request_address = Address("ipc", "/tmp/moor_workers_request.sock")
    /\ curve_keys = NoKeys

InitS == InitSession /\ EnrollAtRest /\ StoreAtRest /\ MainAtRest
SpecSession == InitS /\ [][NextSession]_vars

InitE == InitEnroll /\ SessionAtRest /\ StoreAtRest /\ MainAtRest
SpecEnroll == InitE /\ [][NextEnroll]_vars

SpecStore == InitE /\ [][NextStore]_vars
SpecEnrollLive == InitE /\ [][NextEnroll]_vars /\ WF_vars(EnrollProgram)

(***************************************************************************)
(* main(): setup_curve_auth, then the worker session.                      *)
(***************************************************************************)
Addresses ==
    { Address("ipc", "/tmp/moor_workers_response.sock"), Address("tcp", "localhost:7899") }

RequestAddresses ==
    { Address("ipc", "/tmp/moor_workers_request.sock"), Address("tcp", "localhost:7898") }

\* _configure_curve: the socket gets the keys if the session was given any
_configure_curve(keys) == keys.present

\* Mutant: every transport is taken for a networked one.
use_curve_always(addr) == TRUE

\* rpc_address.startswith("tcp://")
use_curve(addr) == addr.scheme = "tcp"

\* The responses and frames the daemon gives in the runs of main().
MainResponses ==
    { NoResponse, Response(TRUE, FALSE, NoKeyStr, NoUuidStr) }
    \cup { Response(TRUE, TRUE, DaemonKey, UuidStr("canon", n)) : n \in Ids }
MainFrames ==
    { Frame(2, TRUE, "PingWorkers", NoId, NoId, <<>>),
      Frame(2, TRUE, "PleaseDie", NoId, NoId, <<>>) }
    \cup { Frame(2, TRUE, "WorkerRequest", GoodId(w), GoodId(1), <<StrV("hello")>>) :
              w \in Ids }

InitMain ==
    /\ mpc = "start"
    /\ rpc_address \in Addresses
    /\ request_address \in RequestAddresses
    /\ curve_keys = NoKeys

\* setup_curve_auth up to the return of ensure_enrolled's first step: None for
\* a transport that is not tcp, otherwise ensure_enrolled with the environment
\* variable as the explicit token.
setup_curve_auth(file, xdg, env) ==
    /\ mpc = "start"
    /\ IF ~use_curve(rpc_address)
       THEN /\ mpc' = "configured"
            /\ UNCHANGED enrollVars
       ELSE /\ mpc' = "enrolling"
            /\ ensure_enrolled(env, file, xdg, env)
    /\ UNCHANGED <<rpc_address, request_address, curve_keys>>

\* setup_curve_auth after ensure_enrolled: the exception ends main(); otherwise
\* load_or_generate_keypair and the triple of keys.  The locals of
\* ensure_enrolled are gone when setup_curve_auth returns.
setup_curve_auth_return ==
    /\ mpc = "enrolling"
    /\ epc = "done"
    /\ IF result.kind = "returned"
       THEN LET kp == load_or_generate_keypair(service_type)
            IN  /\ KeyFilesAfter(service_type, kp)
                /\ IF kp.ok
                   THEN /\ curve_keys' = CurveKeys(kp.secret, kp.public, result.key)
                        /\ mpc' = "configured"
                        /\ epc' = "idle"
                        /\ token' = ""
                        /\ attempt' = 0
                        /\ retry_delay_ms' = 0
                        /\ sleeps' = <<>>
                        /\ requests' = 0
                        /\ lastRequest' = NoRequest
                        /\ lastResponse' = NoResponse
                        /\ result' = NoResult
                        /\ sources' = NoSources
                   ELSE /\ mpc' = "exited"
                        /\ UNCHANGED <<curve_keys, epc, token, attempt, retry_delay_ms, sleeps,
                                       requests, lastRequest, lastResponse, result, sources>>
       ELSE /\ mpc' = "exited"
            /\ UNCHANGED <<curve_keys, secretFile, publicFile, keygen, epc, token, attempt,
                           retry_delay_ms, sleeps, requests, lastRequest, lastResponse,
                           result, sources>>
    /\ UNCHANGED <<rpc_address, request_address, service_type, identityFile, store0, prev, ecalls>>

\* worker_id = uuid.uuid4(); worker = MoorWorker(worker_id, ...)
create_worker(id) ==
    /\ mpc = "configured"
    /\ mpc' = "session"
    /\ worker_id' = id
    /\ pc' = "created"
    /\ context' = "open"
    /\ UNCHANGED <<process_func, req_sock, sub_sock, cur, sentNow, calls, fault, attach_reply,
                   shutdowns>>
    /\ UNCHANGED <<rpc_address, request_address, curve_keys>>

\* the session runs and main() stands still
InSession == mpc = "session" /\ UNCHANGED <<enrollVars, storeVars, mainVars>>

NextMain ==
    \/ \E file \in TokenFiles, xdg \in XdgFiles, env \in EnvTokens :
          setup_curve_auth(file, xdg, env) /\ UNCHANGED <<sessionVars, storeVars>>
    \/ mpc = "enrolling" /\ enroll_send /\ UNCHANGED <<sessionVars, storeVars, mainVars>>
    \/ \E resp \in MainResponses :
          mpc = "enrolling" /\ enroll_recv(resp) /\ UNCHANGED <<sessionVars, storeVars, mainVars>>
    \/ setup_curve_auth_return /\ UNCHANGED <<sessionVars, storeVars>>
    \/ \E id \in Ids : create_worker(id) /\ UNCHANGED <<enrollVars, storeVars>>
    \/ \E ok \in BOOLEAN : attach_send(ok) /\ InSession
    \/ \E r \in AttachReplies : attach_recv(r) /\ InSession
    \/ subscribe /\ InSession
    \/ \E f \in Callbacks : run(f) /\ InSession
    \/ \E fr \in MainFrames, ok \in BOOLEAN : run_recv(fr, ok) /\ InSession
    \/ \E got \in BOOLEAN : ack_recv(got) /\ InSession
    \/ keyboard_interrupt /\ InSession
    \/ shutdown /\ InSession

InitM == InitMain /\ InitEnroll /\ SessionAtRest /\ StoreAtRest
SpecMain == InitM /\ [][NextMain]_vars

(***************************************************************************)
(* Properties of the worker session.                                       *)
(***************************************************************************)
Decoded(f) == f.nparts >= 2 /\ f.decodable
\* f is a WorkerRequest with a well-formed destination other than this session
ForeignRequest(f) ==
    /\ Decoded(f) /\ f.kind = "WorkerRequest"
    /\ f.worker_id.present /\ UuidParses(f.worker_id) /\ f.worker_id.val # worker_id
\* f is a well-formed WorkerRequest addressed to this session
OwnRequest(f) ==
    /\ Decoded(f) /\ f.kind = "WorkerRequest"
    /\ f.worker_id.present /\ UuidParses(f.worker_id) /\ f.worker_id.val = worker_id
    /\ f.id.present /\ UuidParses(f.id)
Interrupted == fault = "KeyboardInterrupt"

\* C1: broadcast filtering: the iteration that received a WorkerRequest whose
\* destination differs from worker_id invoked no callback, sent nothing on the
\* response socket (it never waits for an acknowledgement) and is back at the
\* receive of the loop (unless the process was interrupted afterwards).
C1_BroadcastFiltering ==
    ForeignRequest(cur) =>
        /\ calls = 0
        /\ sentNow = <<>>
        /\ pc # "ack_wait"
        /\ (~Interrupted => pc = "running")

\* C1 witness: a foreign request was received while the response socket could send.
C1_Witness ==
    ForeignRequest(cur) /\ pc = "running" /\ req_sock = "ready" /\ fault = "none"

\* C2 (the claim as stated): the iteration that handled a request addressed to
\* this session invoked process_func exactly once, and the RequestResult it sent
\* carries what process_func returns for the request's arguments.
C2_CallbackDecidesResult ==
    (OwnRequest(cur) /\ pc = "ack_wait") =>
        /\ calls = 1
        /\ Len(sentNow) = 1
        /\ sentNow[1].result = CallbackResult(process_func, cur.request)

\* the variants of TypedValue: integer, float, string, list of such
RECURSIVE Supported(_)
Supported(v) ==
    \/ v.t \in {"VarInt", "VarFloat", "VarStr"}
    \/ v.t = "VarList" /\ \A k \in 1..Len(v.e) : Supported(v.e[k])

\* C3 (the claim as stated): the iteration that handled a request addressed to
\* this session with arguments a1..an (integers, floats, strings, lists), and
\* whose send the socket accepted, sent exactly one RequestResult with this
\* worker's id, the request's id and the list ["echo_response", a1, ..., an],
\* and waits for the acknowledgement.
C3_EchoResult ==
    (/\ OwnRequest(cur)
     /\ \A k \in 1..Len(cur.request) : Supported(cur.request[k])
     /\ pc = "ack_wait") =>
        sentNow = << Msg("RequestResult", worker_id, cur.id.val,
                         ListV(<<StrV("echo_response")>> \o cur.request)) >>

\* C4: Terminate semantics: after a PleaseDie without target or with this
\* session's id the loop has ended; after a PleaseDie with another well-formed
\* target the session is back at the receive of the loop.
TerminateFor(f, own) ==
    /\ Decoded(f) /\ f.kind = "PleaseDie"
    /\ f.worker_id.present /\ UuidParses(f.worker_id)
    /\ (f.worker_id.val = worker_id) = own
C4_TerminateSemantics ==
    /\ (Decoded(cur) /\ cur.kind = "PleaseDie" /\ ~cur.worker_id.present)
           => pc \in {"terminated", "shutdown"}
    /\ TerminateFor(cur, TRUE) => pc \in {"terminated", "shutdown"}
    /\ (TerminateFor(cur, FALSE) /\ ~Interrupted) => pc = "running"

\* C4 witness: a PleaseDie addressed to this session ended the loop.
C4_Witness == TerminateFor(cur, TRUE) /\ pc = "terminated" /\ fault = "none"

\* C5: error containment: whatever exception an iteration of run() ended with
\* (malformed frame, decode failure, bad identifier, refused or timed-out send,
\* missing acknowledgement), the loop has not exited: the session is at the
\* next receive on the broadcast channel.
IterationFaults == {"decode_error", "ValueError", "efsm", "send_timeout", "recv_timeout"}
C5_ErrorContainment ==
    /\ (process_func # "none" /\ fault \in IterationFaults) => pc = "running"
    /\ (process_func # "none" /\ cur # NoFrame /\ cur.nparts < 2 /\ ~Interrupted)
           => pc = "running"

\* C5 witness: an acknowledgement did not arrive and the loop is at its receive.
C5_Witness ==
    process_func # "none" /\ fault = "recv_timeout" /\ pc = "running" /\ Len(sentNow) = 1

\* C6 (the claim as stated): the session never attempts a send on the response
\* socket while the reply to its previous send is outstanding.
C6_SingleOutstanding == fault # "efsm"

\* C7: attach() sends one AttachWorker and waits for one reply; WorkerAttached
\* lets the session proceed; WorkerRejected and WorkerAuthFailed make attach()
\* fail with the error, and the session then never subscribes nor runs.
AttachRefused ==
    /\ attach_reply.received /\ attach_reply.parseable
    /\ attach_reply.reply_type \in {"WorkerRejected", "WorkerAuthFailed"}
C7_AttachOutcomes ==
    /\ pc = "attaching" =>
          (sentNow = <<build_attach_worker_message(worker_id)>> /\ req_sock = "awaiting")
    /\ pc = "attached" =>
          (sentNow = <<build_attach_worker_message(worker_id)>> /\ req_sock = "ready")
    /\ (attach_reply.received /\ attach_reply.parseable
          /\ attach_reply.reply_type = "WorkerAttached")
          => (pc # "failed" /\ (pc = "shutdown" => sub_sock = "closed"))
    /\ AttachRefused =>
          /\ pc \in {"failed", "shutdown"}
          /\ fault = (IF attach_reply.reply_type = "WorkerRejected"
                       THEN "rejected" ELSE "auth_failed")
          /\ sub_sock = "none"
          /\ process_func = "none"
          /\ cur = NoFrame

\* C7 witness: the daemon rejected the worker and the session was shut down.
C7_Witness ==
    attach_reply.received /\ attach_reply.reply_type = "WorkerRejected" /\ pc = "shutdown"

\* C8 (the claim as stated): an unparseable attach reply of zero bytes is not
\* treated as a successful attach: the session does not get past attach().
C8_EmptyReplyNotSuccess ==
    (attach_reply.received /\ ~attach_reply.parseable /\ attach_reply.len = 0)
        => pc \in {"failed", "shutdown"} /\ sub_sock = "none"

\* C22 (the claim as stated): in the RequestResult sent for a request addressed
\* to this session, every argument that is an integer, a float, a string or a
\* list of such (the empty string, zero, empty and nested lists included)
\* appears unchanged, the arguments in their order after "echo_response".
C22_CopyFidelity ==
    (OwnRequest(cur) /\ pc = "ack_wait" /\ Len(sentNow) = 1) =>
        /\ sentNow[1].result.t = "VarList"
        /\ Len(sentNow[1].result.e) = Len(cur.request) + 1
        /\ \A k \in 1..Len(cur.request) :
              Supported(cur.request[k]) => sentNow[1].result.e[k + 1] = cur.request[k]

\* C23: forward compatibility: the RequestResult for a request addressed to this
\* session is sent whatever the variants of its arguments are, with a string
\* placeholder in the place of every argument that is no integer, float,
\* string or list; the iteration never ends with a decode or value error.
KnownVariants == {"VarInt", "VarFloat", "VarStr", "VarList"}
C23_UnknownVariantPlaceholder ==
    /\ (OwnRequest(cur) /\ pc = "ack_wait") =>
          /\ Len(sentNow) = 1
          /\ sentNow[1].kind = "RequestResult"
          /\ sentNow[1].request_id = cur.id.val
          /\ Len(sentNow[1].result.e) = Len(cur.request) + 1
          /\ \A k \in 1..Len(cur.request) :
                cur.request[k].t \notin KnownVariants =>
                   sentNow[1].result.e[k + 1] =
                      StrV("<unsupported_type_" \o cur.request[k].t \o ">")
    /\ OwnRequest(cur) => fault \notin {"decode_error", "ValueError"}

\* C23 witness: the result for a request with an object argument was sent with
\* the placeholder in its place.
C23_Witness ==
    /\ OwnRequest(cur) /\ cur.request = <<ObjV(3), StrV("z")>> /\ pc = "ack_wait"
    /\ sentNow[1].result =
          ListV(<<StrV("echo_response"), StrV("<unsupported_type_VarObj>"), StrV("z")>>)

\* the identifier field is there and has not the width of a UUID
WrongWidth(id) == id.present /\ id.width # UuidWidth
\* the iteration dropped the message: no callback, nothing sent, loop goes on
Dropped == calls = 0 /\ sentNow = <<>> /\ (~Interrupted => pc = "running")

\* C24 (the claim as stated): a WorkerRequest whose destination or request
\* identifier, or a PleaseDie whose target identifier, is absent or has the
\* wrong width is dropped: no callback, nothing sent, the loop goes on.
C24_MalformedIdDropped ==
    /\ (Decoded(cur) /\ cur.kind = "WorkerRequest"
          /\ (cur.worker_id.present => cur.worker_id.width # UuidWidth \/ ~cur.id.present
                                          \/ cur.id.width # UuidWidth))
          => Dropped
    /\ (Decoded(cur) /\ cur.kind = "PleaseDie"
          /\ (~cur.worker_id.present \/ cur.worker_id.width # UuidWidth))
          => Dropped

\* C24 (amended): the same, except that a PleaseDie without a target identifier
\* is no malformed message: it is the broadcast form and ends the loop.
C24_MalformedIdDroppedButBroadcast ==
    /\ (Decoded(cur) /\ cur.kind = "WorkerRequest"
          /\ (cur.worker_id.present => cur.worker_id.width # UuidWidth \/ ~cur.id.present
                                          \/ cur.id.width # UuidWidth))
          => Dropped
    /\ (Decoded(cur) /\ cur.kind = "PleaseDie" /\ WrongWidth(cur.worker_id))
          => (Dropped /\ (~Interrupted => fault = "ValueError"))
    /\ (Decoded(cur) /\ cur.kind = "PleaseDie" /\ ~cur.worker_id.present)
          => pc \in {"terminated", "shutdown"}

\* C24 witness: a request addressed to this session with a request identifier
\* of the wrong width was dropped with a ValueError, the loop at its receive.
C24_Witness ==
    /\ Decoded(cur) /\ cur.kind = "WorkerRequest"
    /\ cur.worker_id = GoodId(worker_id) /\ WrongWidth(cur.id)
    /\ fault = "ValueError" /\ pc = "running" /\ sentNow = <<>>

\* the session has sent on the response socket and not yet received
SendStates == {"attaching", "ack_wait"}

\* C25: correlated-channel framing: every send on the response socket is one
\* frame of an AttachWorker, WorkerPong or RequestResult whose first part is the
\* session's worker identifier; the step after a send is the one receive on
\* that socket (a reply, the receive timeout, or an interrupt), and nothing is
\* sent in any other step.
C25_CorrelatedFraming ==
    [][ /\ (pc' \in SendStates /\ pc \notin SendStates) =>
              /\ Len(sentNow') = 1
              /\ sentNow'[1].part1 = worker_id
              /\ sentNow'[1].worker_id = worker_id
              /\ sentNow'[1].kind \in {"AttachWorker", "WorkerPong", "RequestResult"}
              /\ req_sock = "ready" \/ req_sock = "none"
              /\ req_sock' = "awaiting"
        /\ pc \in SendStates =>
              /\ pc' \notin SendStates
              /\ UNCHANGED <<sentNow, cur, sub_sock, calls>>
              /\ req_sock' = "ready" \/ fault' \in {"recv_timeout", "KeyboardInterrupt"}
        /\ (sentNow' # sentNow /\ sentNow' # <<>>) => pc' \in SendStates
      ]_vars

\* C25 witness: a WorkerPong went out with the worker identifier in front and
\* its acknowledgement was received.
C25_Witness ==
    /\ pc = "running" /\ fault = "none" /\ req_sock = "ready"
    /\ Len(sentNow) = 1 /\ sentNow[1].kind = "WorkerPong" /\ sentNow[1].part1 = worker_id

\* C26 (the claim as stated): the iteration that received a PingWorkers sent
\* exactly one WorkerPong with this session's identifier and type, invoked no
\* callback, and waits for or has passed the acknowledgement (unless the
\* transport timed the send out or the process was interrupted).
C26_PingHandling ==
    (Decoded(cur) /\ cur.kind = "PingWorkers"
        /\ fault \notin {"send_timeout", "KeyboardInterrupt"}) =>
        /\ calls = 0
        /\ Len(sentNow) = 1
        /\ sentNow[1].kind = "WorkerPong"
        /\ sentNow[1].worker_id = worker_id /\ sentNow[1].worker_type = "echo"
        /\ pc \in {"ack_wait", "running"}

\* C27: shutdown() called before attach, after a failed attach, after
\* subscribe, after the loop ended, or again after a shutdown raises nothing
\* and leaves both sockets closed (or never opened) and the context terminated;
\* a call after the first changes nothing.
C27_ShutdownIdempotent ==
    [][ shutdowns' = shutdowns + 1 =>
           /\ fault' = fault
           /\ pc' = "shutdown"
           /\ sub_sock' \in {"none", "closed"}
           /\ req_sock' \in {"none", "closed"}
           /\ context' = "terminated"
           /\ shutdowns >= 1 => UNCHANGED <<pc, sub_sock, req_sock, context>>
      ]_vars

\* C27 witness: shutdown() ran twice on a session that had subscribed.
C27_Witness ==
    /\ shutdowns = 2 /\ pc = "shutdown" /\ context = "terminated"
    /\ req_sock = "closed" /\ sub_sock = "closed" /\ process_func = "none"

\* C29 (the claim as stated): a reply to AttachWorker that cannot be decoded
\* makes attach() fail, so that the session neither subscribes nor runs; a
\* message of the loop that cannot be decoded leaves the loop at its receive.
C29_AttachDecodeFatal ==
    /\ (attach_reply.received /\ ~attach_reply.parseable) =>
          (pc \in {"failed", "shutdown"} /\ sub_sock = "none" /\ process_func = "none")
    /\ (process_func # "none" /\ fault = "decode_error") => pc = "running"

\* C31 (the claim as stated): resilience after a failed iteration: when the
\* iteration before ended with an exception (undecodable message, bad
\* identifier, acknowledgement not arrived in time) and the loop then receives a
\* well-formed WorkerRequest addressed to this session, whose send does not
\* itself time out, a RequestResult for it is sent.
FailedIteration == fault \in {"decode_error", "ValueError", "recv_timeout"}
C31_ResilientAfterFailure ==
    [][(/\ pc = "running" /\ FailedIteration
        /\ pc' # "terminated" /\ OwnRequest(cur') /\ fault' # "send_timeout")
       => (/\ pc' = "ack_wait"
           /\ sentNow' = <<build_request_result(worker_id, cur'.id.val, cur'.request)>>)]_vars

\* The steps of a session: Created -> Attaching -> Attached (-> subscribed) ->
\* Running (with its wait for an acknowledgement) -> Terminated, and
\* Attaching -> failed (rejected, auth failed, no reply).
SessionSteps ==
    { <<"created", "attaching">>, <<"created", "failed">>,
      <<"attaching", "attached">>, <<"attaching", "failed">>,
      <<"attached", "subscribed">>, <<"subscribed", "running">>,
      <<"running", "running">>, <<"running", "ack_wait">>, <<"ack_wait", "running">>,
      <<"running", "terminated">>, <<"ack_wait", "terminated">> }
Released(sock) == sock \in {"none", "closed"}

\* C33: session state ordering: every step of a session is one of SessionSteps
\* or the release by shutdown(); a broadcast message has been received only by
\* a session whose attach() got a reply that was neither WorkerRejected nor
\* WorkerAuthFailed and whose subscribe() was called; after a failed attach and
\* after the end of the loop nothing is sent or received any more, the only
\* step left is shutdown(), which releases both sockets.
C33_StateOrdering ==
    [][/\ (pc' # "shutdown") => (<<pc, pc'>> \in SessionSteps)
       /\ (cur' # NoFrame) =>
              /\ attach_reply'.received
              /\ ~(attach_reply'.parseable
                    /\ attach_reply'.reply_type \in {"WorkerRejected", "WorkerAuthFailed"})
              /\ sub_sock' # "none"
       /\ (cur' # cur) => (pc = "running" /\ sub_sock = "open")
       /\ (pc \in {"failed", "terminated", "shutdown"}) =>
              /\ pc' = "shutdown"
              /\ cur' = cur /\ sentNow' = sentNow /\ attach_reply' = attach_reply
              /\ Released(req_sock') /\ Released(sub_sock')]_vars

\* C33 witness: a session that attached, subscribed, ran, was told to die and
\* has been shut down.
C33_Witness ==
    /\ pc = "shutdown" /\ shutdowns = 1
    /\ attach_reply.parseable /\ attach_reply.reply_type = "WorkerAttached"
    /\ Decoded(cur) /\ cur.kind = "PleaseDie" /\ fault = "none"
    /\ sub_sock = "closed" /\ req_sock = "closed"

\* f is a PleaseDie without target or with this session's identifier
ExitingTerminate(f) ==
    /\ f.nparts >= 2 /\ f.decodable /\ f.kind = "PleaseDie"
    /\ (~f.worker_id.present
        \/ (f.worker_id.width = UuidWidth /\ f.worker_id.val = worker_id))

\* C34: the loop of run() exits only on a PleaseDie that is unaddressed or
\* addressed to this session, or on KeyboardInterrupt: every other step of the
\* loop (Ping, WorkerRequest, unknown kind, malformed frame, exception of a
\* handler) leaves the session in the loop.
C34_ExitOnlyOnTerminate ==
    [][(pc \in {"running", "ack_wait"}) =>
          /\ pc' \in {"running", "ack_wait", "terminated"}
          /\ (pc' = "terminated") =>
                 \/ fault' = "KeyboardInterrupt" /\ cur' = cur
                 \/ pc = "running" /\ fault' = "none" /\ ExitingTerminate(cur')]_vars

\* C34 witness: the loop went on after a message of unknown kind and ended
\* with the interrupt that followed.
C34_Witness ==
    /\ pc = "terminated" /\ fault = "KeyboardInterrupt"
    /\ Decoded(cur) /\ cur.kind = "NONE"

\* C35: sequential processing: a broadcast message is received only at the top
\* of the loop, never while the handler of the one before still waits for its
\* acknowledgement; the handler sends at most one message, in the iteration
\* that received its request and before the next receive (so results leave in
\* the order of their requests), and a RequestResult carries the identifier of
\* the request of that iteration.
C35_SequentialProcessing ==
    [][/\ (cur' # cur \/ calls' # calls) => pc = "running"
       /\ (pc = "ack_wait") => (cur' = cur /\ sentNow' = sentNow)
       /\ (pc = "running" /\ pc' # "terminated" /\ sentNow' # <<>>) =>
              /\ Len(sentNow') = 1
              /\ pc' = "ack_wait"
              /\ req_sock' = "awaiting"
              /\ (sentNow'[1].kind = "RequestResult") =>
                     (OwnRequest(cur') /\ sentNow'[1].request_id = cur'.id.val)
       /\ (pc = "running" /\ pc' # "terminated" /\ ~OwnRequest(cur')) =>
              (\A i \in 1..Len(sentNow') : sentNow'[i].kind # "RequestResult")]_vars

\* C35 witness: the result of request 2 has been sent and the session waits for
\* its acknowledgement before it receives again.
C35_Witness ==
    /\ pc = "ack_wait" /\ OwnRequest(cur) /\ cur.id.val = 2
    /\ cur.request = <<IntV(0), FloatV(1)>>
    /\ Len(sentNow) = 1 /\ sentNow[1].kind = "RequestResult" /\ sentNow[1].request_id = 2

(***************************************************************************)
(* Properties of the enrollment client.                                    *)
(***************************************************************************)
\* C9: short-circuit: a call of ensure_enrolled that finds an identity record
\* for the service type returns that record's daemon key and identifier at
\* once, whatever the token sources hold: it sends no EnrollmentRequest and
\* leaves the key files, the identity file and the key generator untouched.
C9_ShortCircuit ==
    [][ (ecalls' = ecalls + 1 /\ identityFile[service_type].exists) =>
           /\ epc' = "done"
           /\ result' = Returned(identityFile[service_type].daemon_curve_public_key,
                                  identityFile[service_type].service_uuid.val)
           /\ requests' = 0
           /\ lastRequest' = NoRequest
           /\ UNCHANGED <<secretFile, publicFile, identityFile, keygen>> ]_vars

\* C9 witness: the first call returned the stored identity of a scope whose key
\* files are missing, without a request.
C9_Witness ==
    /\ ecalls = 1 /\ epc = "done" /\ result.kind = "returned" /\ requests = 0
    /\ store0.identity.exists /\ ~store0.secret.exists /\ ~store0.public.exists
    /\ ~secretFile[service_type].exists

\* the first response of the first call on an empty scope answered success
\* with a daemon key and an identifier
FirstAnswerAccepts ==
    /\ store0 = EmptyStore /\ ecalls = 1 /\ requests = 1 /\ epc # "awaiting_response"
    /\ lastResponse.received /\ lastResponse.success
    /\ lastResponse.daemon_key.len > 0 /\ lastResponse.service_uuid.form # "absent"
ReturnedFirstAnswer ==
    /\ epc = "done"
    /\ result = Returned(lastResponse.daemon_key, lastResponse.service_uuid.val)
    /\ requests = 1
\* a call that follows a call that returned a pair returns the same pair
\* and sends nothing
SecondCallSame ==
    (ecalls >= 2 /\ prev.kind = "returned") =>
        (epc = "done" /\ result = prev /\ requests = 0)

\* C10 (the claim as stated): on an empty scope, when the daemon answers success
\* with key K and identifier I, whatever string I is, ensure_enrolled returns
\* (K, I) after one request, and a second call returns the same pair and sends
\* no request.
C10_EnrollAnyIdentifier ==
    /\ FirstAnswerAccepts => ReturnedFirstAnswer
    /\ SecondCallSame

\* C10 (amended): the same, for an identifier I that is the string form of a UUID.
C10_EnrollUuidIdentifier ==
    /\ (FirstAnswerAccepts /\ UuidStrParses(lastResponse.service_uuid))
          => ReturnedFirstAnswer
    /\ SecondCallSame

\* C10 witness: a second call on a scope that was empty returned the pair the
\* first call enrolled with, without a request.
C10_Witness ==
    /\ store0 = EmptyStore /\ ecalls = 2 /\ epc = "done" /\ requests = 0
    /\ prev = Returned(DaemonKey, 1) /\ result = prev
    /\ keygen = 1
    /\ identityFile[service_type] = Identity(UuidStr("canon", 1), service_type, DaemonKey, 0)

\* the call is inside its retry loop
InRetryLoop == epc \in {"attempting", "awaiting_response"}

\* C11: backoff sequence: the delays a call slept between its attempts are, in
\* order, 100, 200, 400, 800, 1600, 3200, 5000, 5000, ...: the first is 100,
\* each next is the smaller of twice the previous and 5000, none exceeds 5000,
\* and there is one delay between any two consecutive attempts.
C11_BackoffSequence ==
    /\ \A k \in 1..Len(sleeps) : sleeps[k] <= 5000
    /\ Len(sleeps) >= 1 => sleeps[1] = 100
    /\ \A k \in 1..(Len(sleeps) - 1) :
          sleeps[k + 1] = (IF 2 * sleeps[k] < 5000 THEN 2 * sleeps[k] ELSE 5000)
    /\ \A k \in 1..Len(sleeps) :
          k <= 8 => sleeps[k] = <<100, 200, 400, 800, 1600, 3200, 5000, 5000>>[k]
    /\ InRetryLoop => Len(sleeps) = attempt - 1

\* C11 witness: the daemon rejected the last of 30 attempts, and the call slept
\* 29 times, the last time for 5000 ms.
C11_Witness ==
    /\ result.error = "retries_exhausted" /\ requests = max_retries
    /\ lastResponse.decodable /\ ~lastResponse.success
    /\ Len(sleeps) = 29 /\ sleeps[6] = 3200 /\ sleeps[7] = 5000 /\ sleeps[29] = 5000

\* C12: bounded retry: a call sends at most 30 EnrollmentRequests; when the
\* 30th attempt fails the call raises the retries-exhausted error with the
\* cause of that failure, has slept 29 times (not after the last attempt) and
\* has written no identity; when attempt k succeeds the call returns at once,
\* having sent k requests and slept k - 1 times.
C12_BoundedRetry ==
    /\ requests <= max_retries /\ attempt <= max_retries /\ requests <= attempt
    /\ result.error = "retries_exhausted" =>
          /\ epc = "done" /\ attempt = max_retries /\ Len(sleeps) = max_retries - 1
          /\ ~identityFile[service_type].exists
          /\ requests \in {0, max_retries}
          /\ requests = max_retries =>
                (result.cause # "ok" /\ result.cause = ResponseOutcome(lastResponse))
          /\ requests = 0 => result.cause = "ValueError"
    /\ (InRetryLoop /\ attempt > 1) => ResponseOutcome(lastResponse) # "ok" \/ requests = 0
    /\ (result.kind = "returned" /\ requests > 0) =>
          /\ epc = "done" /\ requests = attempt /\ Len(sleeps) = attempt - 1
          /\ ResponseOutcome(lastResponse) = "ok"
          /\ result = Returned(lastResponse.daemon_key, lastResponse.service_uuid.val)

\* C12 witness: the 30th attempt got no response and the call raised with the
\* cause of that failure.
C12_Witness ==
    /\ result = Raised("retries_exhausted", "ZMQError") /\ requests = max_retries
    /\ ~lastResponse.received /\ Len(sleeps) = 29

\* The token each source offers, in the order of priority: the explicit
\* argument, the token file argument, the default token file, the environment
\* variable.  A file offers its content without surrounding whitespace.
Candidates(src) ==
    << IF src.arg.present THEN src.arg.text ELSE "",
       IF src.file.present THEN Strip(src.file.text) ELSE "",
       IF src.xdg.present THEN Strip(src.xdg.text) ELSE "",
       IF src.env.present THEN src.env.text ELSE "" >>

\* C13: token resolution priority: every EnrollmentRequest of a call carries the
\* token of the first source, in the order argument, token file, default token
\* file, environment variable, that offers a non-empty token: a source is used
\* only when every source before it is absent or empty.
C13_TokenPriority ==
    requests >= 1 =>
        \E i \in 1..4 :
            /\ Candidates(sources)[i] # ""
            /\ \A j \in 1..(i - 1) : Candidates(sources)[j] = ""
            /\ lastRequest.enrollment_token = Candidates(sources)[i]

\* C13 witness: a request carries the token of the environment variable, the
\* argument being empty, the token file blank and the default file missing.
C13_Witness ==
    /\ requests >= 1 /\ lastRequest.enrollment_token = "tokD"
    /\ sources.arg = Src(TRUE, "") /\ sources.file = Src(TRUE, " \n")
    /\ sources.xdg = Absent /\ sources.env = Src(TRUE, "tokD")

\* the source is absent or holds no token
Blank(src) == ~src.present \/ src.text \in {"", " \n"}
NoTokenAnywhere(src) == Blank(src.arg) /\ Blank(src.file) /\ Blank(src.xdg) /\ Blank(src.env)

\* C14: no-token failure: a call of ensure_enrolled that finds no identity record
\* and no token in any of the four sources fails with the no-token error at
\* once: no EnrollmentRequest, no sleep, no attempt, and the key files, the
\* identity file and the key generator are as they were.
C14_NoTokenFailure ==
    [][ (ecalls' = ecalls + 1 /\ ~identityFile[service_type].exists
           /\ NoTokenAnywhere(sources')) =>
           /\ epc' = "done"
           /\ result' = Raised("no_token", "")
           /\ requests' = 0 /\ attempt' = 0 /\ sleeps' = <<>>
           /\ lastRequest' = NoRequest
           /\ UNCHANGED <<secretFile, publicFile, identityFile, keygen>> ]_vars

\* C14 witness: a call on an empty scope with an empty token argument and a
\* blank token file failed with the no-token error, the scope still empty.
C14_Witness ==
    /\ ecalls = 1 /\ epc = "done" /\ result = Raised("no_token", "") /\ requests = 0
    /\ sources.arg = Src(TRUE, "") /\ sources.file = Src(TRUE, " \n")
    /\ store0 = EmptyStore /\ keygen = 0
    /\ ~secretFile[service_type].exists /\ ~identityFile[service_type].exists

\* both key files of the service type exist and one of them does not parse
KeyFilesMalformed ==
    /\ secretFile[service_type].exists /\ publicFile[service_type].exists
    /\ ~(ParsesKeyFile(secretFile[service_type], "secret")
           /\ ParsesKeyFile(publicFile[service_type], "public"))

\* C15 (the claim as stated): a call that enrolls on a scope whose key files are
\* malformed makes one attempt only: it never sleeps, sends nothing, and ends
\* with the key-store error.
C15_MalformedKeyFatal ==
    (KeyFilesMalformed /\ attempt >= 1) =>
        /\ attempt = 1
        /\ sleeps = <<>>
        /\ requests = 0
        /\ epc = "done" => result = Raised("ValueError", "")

\* C19 (the claim as stated): every identity record in storage has an
\* identifier and a daemon public key of exactly 40 characters.
C19_PersistedIdentity ==
    \A st \in ServiceTypes :
        identityFile[st].exists =>
            /\ identityFile[st].service_uuid.form # "absent"
            /\ identityFile[st].daemon_curve_public_key.len = KeyLen

\* the service types the caller does not enroll
OtherTypes == ServiceTypes \ {service_type}

\* C28: per-service-type scoping: whatever ensure_enrolled does for its service
\* type (key generation, enrollment, identity persistence), the key files and
\* the identity record of every other service type in the directory are what
\* they were, and nothing of them is used: without an identity record of its
\* own the call does not return without a request, and without key files of
\* its own it sends a freshly generated key, under its own service type.
C28_PerTypeScoping ==
    /\ \A b \in OtherTypes :
          /\ secretFile[b] = KeyFile("secret", KeyStr(KeyLen, 0))
          /\ publicFile[b] = KeyFile("public", KeyStr(KeyLen, 0))
          /\ identityFile[b] = Identity(UuidStr("canon", 1), b, KeyStr(KeyLen, 70), 0)
    /\ (~store0.identity.exists /\ ecalls = 1 /\ result.kind = "returned") =>
          (requests >= 1 /\ result.key = lastResponse.daemon_key)
    /\ requests >= 1 =>
          /\ lastRequest.service_type = service_type
          /\ lastRequest.curve_public_key = publicFile[service_type].value
          /\ (~store0.secret.exists \/ ~store0.public.exists) =>
                lastRequest.curve_public_key = generate_curve_keypair(1)

\* C28 witness: the service type was enrolled on an empty scope of its own, with
\* a generated key and an identifier other than the other type's.
C28_Witness ==
    /\ store0 = EmptyStore /\ ecalls = 1 /\ epc = "done" /\ keygen = 1
    /\ result = Returned(DaemonKey, 2)
    /\ identityFile[service_type] = Identity(UuidStr("canon", 2), service_type, DaemonKey, 0)
    /\ \A b \in OtherTypes : identityFile[b].service_uuid = UuidStr("canon", 1)

\* an EnrollmentResponse that makes the attempt fail: none at all, undecodable,
\* an error response, one without daemon key or identifier, or one whose
\* identifier is no UUID
FailedResponse(r) ==
    \/ ~r.received \/ ~r.decodable \/ ~r.success
    \/ r.daemon_key.len = 0
    \/ r.service_uuid.form \notin {"canon", "upper"}

\* C32: the identity record is written only by a successful enrollment: the
\* identity file changes only in the step that received a successful response,
\* an attempt that failed leaves it as it was, and when an enrollment returns,
\* the record on disk holds exactly the identifier and the daemon key returned.
C32_IdentityWrittenOnSuccess ==
    [][/\ (identityFile' # identityFile) =>
              (epc = "awaiting_response" /\ ~FailedResponse(lastResponse'))
       /\ (epc = "awaiting_response" /\ FailedResponse(lastResponse')) =>
              (identityFile' = identityFile /\ result'.kind # "returned")
       /\ (epc = "awaiting_response" /\ epc' = "done" /\ result'.kind = "returned") =>
              /\ identityFile'[service_type].exists
              /\ identityFile'[service_type].service_uuid = UuidStr("canon", result'.uuid)
              /\ identityFile'[service_type].daemon_curve_public_key = result'.key
              /\ identityFile'[service_type].service_type = service_type
              /\ \A b \in ServiceTypes \ {service_type} : identityFile'[b] = identityFile[b]]_vars

\* C32 witness: an enrollment succeeded at its third attempt, after two
\* failures that left no identity record, and its record is on disk.
C32_Witness ==
    /\ ~store0.identity.exists /\ ecalls = 1 /\ epc = "done" /\ attempt = 3
    /\ result = Returned(DaemonKey, 1)
    /\ identityFile[service_type] = Identity(UuidStr("canon", 1), service_type, DaemonKey, 0)

\* C39 (the claim as stated): ensure_enrolled always terminates: a call that
\* has entered its retry loop eventually returns or raises, whatever the daemon
\* does, a daemon that never replies included.
C39_AlwaysTerminates ==
    (epc \in {"attempting", "awaiting_response"}) ~> (epc = "done")

\* an error response of the daemon: decodable, success = false
Rejection(r) == r.received /\ r.decodable /\ ~r.success

\* C40: a rejection by the daemon is handled like a transport failure: it
\* raises after the last attempt and otherwise sleeps the current delay and
\* tries again, the token and the files untouched; every further request of
\* the call carries the token and the public key of the one before; a key pair
\* is generated only when a key file is missing, the key of every request is
\* the one in the public key file, and the key files change only when a pair
\* is generated, so later attempts and later calls reuse the pair of the first.
C40_RejectionRetried ==
    [][/\ (epc = "awaiting_response" /\ Rejection(lastResponse')) =>
              /\ token' = token /\ identityFile' = identityFile
              /\ secretFile' = secretFile /\ publicFile' = publicFile /\ keygen' = keygen
              /\ IF attempt = max_retries
                 THEN epc' = "done" /\ result'.kind = "raised" /\ sleeps' = sleeps
                 ELSE /\ epc' = "attempting" /\ attempt' = attempt + 1
                      /\ sleeps' = Append(sleeps, retry_delay_ms)
       /\ (epc = "attempting" /\ epc' = "awaiting_response") =>
              /\ lastRequest'.enrollment_token = token
              /\ lastRequest'.curve_public_key = publicFile'[service_type].value
              /\ (requests >= 1) => (lastRequest' = lastRequest /\ keygen' = keygen)
       /\ (keygen' # keygen) =>
              (keygen = 0 /\ ~(secretFile[service_type].exists /\ publicFile[service_type].exists))
       /\ (secretFile' # secretFile \/ publicFile' # publicFile) => (keygen' # keygen)]_vars

\* C40 witness: in a later call, on a directory that was empty at first, the
\* first attempt was rejected and the second request has gone out with the
\* one key pair there is.
C40_Witness ==
    /\ ecalls = 2 /\ store0 = EmptyStore /\ keygen = 1
    /\ epc = "awaiting_response" /\ attempt = 2 /\ requests = 2
    /\ Rejection(lastResponse)
    /\ lastRequest.curve_public_key = generate_curve_keypair(1)
    /\ publicFile[service_type] = KeyFile("public", generate_curve_keypair(1))

(***************************************************************************)
(* Properties of the key and identity store.                               *)
(***************************************************************************)
\* the step is a call of the store function f
Calls(f) == op' # op /\ op'.name = f

\* C16 (the claim as stated): a call of load_or_generate_keypair that finds a
\* secret key file that does not parse fails with an error and leaves that
\* file as it is, whether the public key file exists or not.
C16_NeverOverwriteSecret ==
    [][ (/\ Calls("load_or_generate_keypair")
         /\ secretFile[op'.st].exists
         /\ ~ParsesKeyFile(secretFile[op'.st], "secret")) =>
           /\ ret'.kind = "ValueError"
           /\ secretFile'[op'.st] = secretFile[op'.st] ]_vars

\* C17: key material immutability: a call of load_or_generate_keypair that
\* directly follows a call for the same service type that returned a pair (no
\* file removed in between) returns the same pair, generates nothing and
\* writes nothing.
C17_KeyImmutability ==
    [][ (Calls("load_or_generate_keypair") /\ op'.again /\ ret.kind = "keypair") =>
           /\ ret' = ret
           /\ UNCHANGED <<secretFile, publicFile, keygen>> ]_vars

\* C17 witness: on a scope without key files the first call generated a pair
\* and the call after it returned that pair.
C17_Witness ==
    /\ op.name = "load_or_generate_keypair" /\ op.again /\ op.st = service_type
    /\ ~store0.secret.exists /\ ~store0.public.exists
    /\ keygen = 1
    /\ ret = Ret("keypair", generate_curve_keypair(1), generate_curve_keypair(1), NoIdentity)

\* C18: key halves stay together: a call of load_or_generate_keypair that finds
\* exactly one of the two key files generates a fresh pair and writes both
\* files; after any call that returns a pair both files exist and hold the
\* secret and the public half of the one pair returned.
C18_KeyHalvesTogether ==
    [][ Calls("load_or_generate_keypair") =>
           /\ (secretFile[op'.st].exists # publicFile[op'.st].exists) =>
                 /\ keygen' = keygen + 1
                 /\ ret' = Ret("keypair", generate_curve_keypair(keygen + 1),
                                generate_curve_keypair(keygen + 1), NoIdentity)
           /\ ret'.kind = "keypair" =>
                 /\ secretFile'[op'.st] = KeyFile("secret", ret'.secret)
                 /\ publicFile'[op'.st] = KeyFile("public", ret'.public)
                 /\ ret'.secret.val = ret'.public.val
                 /\ ret'.secret.len = KeyLen /\ ret'.public.len = KeyLen ]_vars

\* C18 witness: the scope started with a secret key file only; the call
\* generated a pair and both files hold it.
C18_Witness ==
    /\ op.name = "load_or_generate_keypair" /\ op.st = service_type /\ ~op.again
    /\ store0.secret.exists /\ ~store0.public.exists
    /\ keygen = 1 /\ ret.kind = "keypair" /\ ret.secret = generate_curve_keypair(1)
    /\ secretFile[service_type] = KeyFile("secret", ret.secret)
    /\ publicFile[service_type] = KeyFile("public", ret.public)

\* the record without its time of enrollment
Timeless(identity) == [identity EXCEPT !.enrolled_at = 0]

\* C20 (the claim as stated): a call of save_identity that directly follows a
\* call with the same arguments leaves in the identity file, which is what
\* load_identity returns, the record that was there after the first call.
C20_IdempotentSave ==
    [][ (Calls("save_identity") /\ op'.again) =>
           identityFile'[op'.st] = identityFile[op'.st] ]_vars

\* C20 (amended): after any call of save_identity the identity file, which is
\* what load_identity returns, holds a record with the arguments of the call
\* and the time of the call; after a call that directly follows a call with the
\* same arguments the record is the one that was there after the first call
\* in every field but enrolled_at.
C20_IdempotentSaveButTime ==
    [][ Calls("save_identity") =>
           /\ identityFile'[op'.st] =
                 Identity(UuidStr("canon", op'.uuid), op'.st, op'.key, now)
           /\ op'.again => Timeless(identityFile'[op'.st]) = Timeless(identityFile[op'.st])
      ]_vars

\* C20 witness: save_identity was called a second time with the same arguments,
\* after the clock had moved, and the record carries the later time.
C20_Witness ==
    /\ op.name = "save_identity" /\ op.again /\ now > 0
    /\ identityFile[op.st] = Identity(UuidStr("canon", op.uuid), op.st, op.key, now)

(***************************************************************************)
(* Properties of main().                                                   *)
(***************************************************************************)
\* C21: local-transport exemption: when the response address is not a tcp
\* address, setup_curve_auth returns no keys and performs no enrollment:
\* ensure_enrolled is not called, no EnrollmentRequest is sent, no key pair is
\* generated, main() does not stop for want of a token, and the key files and
\* the identity record are what they were at the start.
C21_LocalExemption ==
    rpc_address.scheme # "tcp" =>
        /\ mpc \notin {"enrolling", "exited"}
        /\ curve_keys = NoKeys
        /\ ecalls = 0
        /\ requests = 0
        /\ epc = "idle"
        /\ keygen = 0
        /\ secretFile[service_type] = store0.secret
        /\ publicFile[service_type] = store0.public
        /\ identityFile[service_type] = store0.identity

\* C21 witness: setup_curve_auth has returned for an ipc address in an empty
\* storage directory, which is still empty.
C21_Witness ==
    /\ rpc_address.scheme = "ipc"
    /\ mpc = "configured"
    /\ store0 = EmptyStore
    /\ secretFile[service_type] = NoKeyFile
    /\ identityFile[service_type] = NoIdentity

\* C30 (the claim as stated): when the worker was enrolled over a networked
\* transport, every message of the session (AttachWorker, WorkerPong,
\* RequestResult) carries the identifier stored in the identity record.
C30_AttachesWithEnrolledId ==
    (mpc = "session" /\ rpc_address.scheme = "tcp" /\ sentNow # <<>>) =>
        /\ identityFile[service_type].exists
        /\ \A i \in 1..Len(sentNow) :
              sentNow[i].worker_id = identityFile[service_type].service_uuid.val

\* C36 (the claim as stated): key/enrollment consistency: when
\* setup_curve_auth returns keys, the client public key among them is the one
\* the EnrollmentRequest behind the persisted identity carried: the key of the
\* request this call sent, or, when the identity was on disk already and no
\* request was sent, a key that was on disk with it and not one generated now.
C36_KeyEnrollmentConsistency ==
    [][(mpc = "enrolling" /\ mpc' = "configured") =>
          /\ curve_keys'.present
          /\ IF requests >= 1
             THEN curve_keys'.public = lastRequest.curve_public_key
             ELSE keygen' = keygen /\ curve_keys'.public = store0.public.value]_vars

\* C37 (the claim as stated): a socket of the session that is connected to a
\* tcp address was configured with the CURVE keys when it connected, whatever
\* the two addresses are.
Connected(sock) == sock \in {"ready", "awaiting", "open"}
C37_NetworkedChannelsSecured ==
    (mpc = "session") =>
        /\ (Connected(req_sock) /\ rpc_address.scheme = "tcp") => _configure_curve(curve_keys)
        /\ (Connected(sub_sock) /\ request_address.scheme = "tcp") =>
               _configure_curve(curve_keys)

\* C38 (the claim as stated): a worker started through setup_curve_auth with a
\* token file holding a token and the environment variable set to another
\* token sends the token of the file in its EnrollmentRequest.
C38_MainTokenPriority ==
    (/\ mpc = "enrolling" /\ requests >= 1
     /\ sources.file.present /\ ~Blank(sources.file) /\ sources.env.present) =>
        lastRequest.enrollment_token = "tokB"

====
